---- MODULE Spec2Model ----
(***************************************************************************)
(* Supplier label generator (supply.py): column detection, value          *)
(* resolution, label rendering onto a canvas, document assembly and the    *)
(* generate-PDF button handler.                                            *)
(*                                                                         *)
(* Text is modelled by TLA+ strings; Len, SubSeq and \o act on them.       *)
(* Lengths are in hundredths of a centimetre (cm == 100).                  *)
(***************************************************************************)
EXTENDS Integers, Sequences, FiniteSets, TLC

VARIABLES
    pc,               \* position of the Streamlit script / button handler
    uploaded_data,    \* st.session_state.uploaded_data: <<>> or <<df>>
    column_mappings,  \* st.session_state.column_mappings (a dict)
    index,            \* number of rows create_label_pdf has consumed
    c,                \* the reportlab canvas: finished pages and current page
    encoder_calls,    \* log of generate_barcode_image invocations
    temp_files,       \* barcode temp files currently on disk
    faults,           \* barcode backend faults injected so far
    pdf_file,         \* what create_label_pdf returned: <<>> or <<document>>
    download,         \* what st.download_button offers: <<>> or <<bytes>>
    call              \* a direct call of one function: arguments and result

vars == <<pc, uploaded_data, column_mappings, index, c, encoder_calls,
          temp_files, faults, pdf_file, download, call>>

(***************************************************************************)
(* Bounds of the model.                                                    *)
(***************************************************************************)
MaxHeaders == 2
MaxRows == 2
MaxFaults == 1
MaxDescLen == 27
MaxNameLen == 17

(***************************************************************************)
(* Python str operations.                                                  *)
(***************************************************************************)
Lower == <<"a","b","c","d","e","f","g","h","i","j","k","l","m",
           "n","o","p","q","r","s","t","u","v","w","x","y","z">>
Capital == <<"A","B","C","D","E","F","G","H","I","J","K","L","M",
           "N","O","P","Q","R","S","T","U","V","W","X","Y","Z">>

\* str.upper() of one character
UpperChar(ch) ==
    IF \E i \in 1..Len(Lower) : Lower[i] = ch
    THEN Capital[CHOOSE i \in 1..Len(Lower) : Lower[i] = ch]
    ELSE ch

RECURSIVE Upper(_)
\* str.upper()
Upper(s) ==
    IF Len(s) = 0 THEN ""
    ELSE UpperChar(SubSeq(s, 1, 1)) \o Upper(SubSeq(s, 2, Len(s)))

\* Python's  k in s  on strings
Contains(s, k) ==
    \E i \in 1..(Len(s) - Len(k) + 1) : SubSeq(s, i, i + Len(k) - 1) = k

IsSpace(ch) == ch \in {" ", "\t"}

RECURSIVE LStrip(_)
LStrip(s) ==
    IF Len(s) > 0 /\ IsSpace(SubSeq(s, 1, 1))
    THEN LStrip(SubSeq(s, 2, Len(s)))
    ELSE s

RECURSIVE RStrip(_)
RStrip(s) ==
    IF Len(s) > 0 /\ IsSpace(SubSeq(s, Len(s), Len(s)))
    THEN RStrip(SubSeq(s, 1, Len(s) - 1))
    ELSE s

\* str.strip()
Strip(s) == RStrip(LStrip(s))

\* s[:n]
Prefix(s, n) == SubSeq(s, 1, IF n < Len(s) THEN n ELSE Len(s))

Digits == <<"0","1","2","3","4","5","6","7","8","9">>

RECURSIVE Str(_)
\* str(n) for a natural number
Str(n) == IF n < 10 THEN Digits[n + 1] ELSE Str(n \div 10) \o Digits[(n % 10) + 1]

\* %d, %m, %y of strftime: two digits, zero padded
Pad2(n) == IF n < 10 THEN "0" \o Str(n) ELSE Str(n)

\* Python None / an optional value
None == <<>>
Some(v) == <<v>>

(***************************************************************************)
(* detect_columns                                                          *)
(***************************************************************************)
Fields == <<"document_date", "asn_no", "part_no", "description", "quantity",
            "net_weight", "gross_weight", "shipper_id", "shipper_name">>

mappings ==
    [document_date |-> <<"DATE", "DOC_DATE", "DOCUMENT_DATE", "SHIP_DATE",
                         "DOCUMENT DATE", "Document Date">>,
     asn_no |-> <<"ASN", "ASN_NO", "ASN NO", "ADVANCE_SHIPMENT", "ASN NUMBER",
                  "ASN No.", "ASN No">>,
     part_no |-> <<"PART", "PART_NO", "PART NO", "ITEM", "PART NUMBER", "PartNo">>,
     description |-> <<"DESC", "DESCRIPTION", "ITEM_DESC", "PART_DESC",
                       "ITEM DESCRIPTION", "Part Description", "Description">>,
     quantity |-> <<"QTY", "QUANTITY", "QTY_SHIPPED", "SHIPPED QTY", "Quantity", "Qty">>,
     net_weight |-> <<"NET_WT", "NET_WEIGHT", "NET WEIGHT", "Net Weight(KG)",
                      "NET WT", "Net Wt.", "Net Wt", "NetWt">>,
     gross_weight |-> <<"GROSS_WT", "GROSS_WEIGHT", "GROSS WEIGHT", "Gross Weight(KG)",
                        "GROSS WT", "GROSS WT.", "Gross Wt.", "Gross Wt", "Gross wt.">>,
     shipper_id |-> <<"SHIPPER_PART", "VENDOR_PART", "SUPPLIER_PART", "VENDOR PART",
                      "SHIPPER PART", "Shipper ID", "ID", "id", "Shipper_ID",
                      "Delivery Partner ID", "SHIPPER_ID">>,
     shipper_name |-> <<"SHIPPER", "VENDOR", "SUPPLIER", "FROM", "VENDOR NAME",
                        "SUPPLIER NAME", "SHIPPER NAME", "Shipper Name",
                        "shipper name", "SHIPPER_NAME">>]

\* any(keyword in header_upper for keyword in keywords)
AnyKeywordIn(keywords, header_upper) ==
    \E i \in 1..Len(keywords) : Contains(header_upper, keywords[i])

RECURSIVE ScanHeaders(_, _, _)
\* the inner loop over headers from position i, with its break
ScanHeaders(headers, keywords, i) ==
    IF i > Len(headers) THEN None
    ELSE LET header == headers[i]
             header_upper == Upper(header)
         IN  IF AnyKeywordIn(keywords, header_upper) THEN Some(header)
             ELSE ScanHeaders(headers, keywords, i + 1)

RECURSIVE ScanHeadersNoBreak(_, _, _, _)
\* the inner loop without its break: the last matching header is kept
ScanHeadersNoBreak(headers, keywords, i, found) ==
    IF i > Len(headers) THEN found
    ELSE ScanHeadersNoBreak(headers, keywords, i + 1,
             IF AnyKeywordIn(keywords, Upper(headers[i])) THEN Some(headers[i])
             ELSE found)

FoundLast(headers, keywords) == ScanHeadersNoBreak(headers, keywords, 1, None)

\* found, after the inner loop
Found(headers, keywords) == ScanHeaders(headers, keywords, 1)

\* if found: an empty header string is falsy as well
Truthy(opt) == opt # None /\ opt[1] # ""

RECURSIVE DetectExclusive(_, _, _)
\* a detection in which a header already taken by an earlier field is skipped
DetectExclusive(headers, i, acc) ==
    IF i > Len(Fields) THEN acc
    ELSE LET Free(h) == \A k \in DOMAIN acc : acc[k] # h
             found == ScanHeaders(SelectSeq(headers, Free), mappings[Fields[i]], 1)
         IN  DetectExclusive(headers, i + 1,
                 IF Truthy(found)
                 THEN [k \in DOMAIN acc \cup {Fields[i]} |->
                          IF k = Fields[i] THEN found[1] ELSE acc[k]]
                 ELSE acc)

detect_columns_exclusive(headers) == DetectExclusive(headers, 1, <<>>)

detect_columns(headers) ==
    LET keys == {Fields[i] : i \in 1..Len(Fields)}
        kept == {key \in keys : Truthy(Found(headers, mappings[key]))}
    IN  [key \in kept |-> Found(headers, mappings[key])[1]]

\* dict.get(key)
Get(d, key) == IF key \in DOMAIN d THEN Some(d[key]) ELSE None

(***************************************************************************)
(* Table cells (pandas values) and get_value_with_fallback                 *)
(***************************************************************************)
NaN == [kind |-> "nan", s |-> "", n |-> 0, date |-> <<0, 0, 0>>]
StrCell(s) == [kind |-> "str", s |-> s, n |-> 0, date |-> <<0, 0, 0>>]
IntCell(n) == [kind |-> "int", s |-> "", n |-> n, date |-> <<0, 0, 0>>]
\* pd.Timestamp(year, month, day)
Timestamp(y, m, d) == [kind |-> "ts", s |-> "", n |-> 0, date |-> <<y, m, d>>]

\* pd.notna(value)
notna(value) == value.kind # "nan"

\* value.strftime('%d-%m-%y')
strftime(value) ==
    Pad2(value.date[3]) \o "-" \o Pad2(value.date[2]) \o "-" \o Pad2(value.date[1] % 100)

\* str(value)
str(value) == IF value.kind = "int" THEN Str(value.n) ELSE value.s

\* the resolver without the empty-after-strip fallback
get_value_no_fallback(row, column_name, default_value, allow_blank) ==
    IF ~Truthy(column_name)
    THEN (IF ~allow_blank THEN default_value ELSE "")
    ELSE IF column_name[1] \in DOMAIN row /\ notna(row[column_name[1]])
    THEN LET value == row[column_name[1]]
         IN  IF value.kind = "ts" THEN strftime(value) ELSE Strip(str(value))
    ELSE (IF allow_blank THEN "" ELSE default_value)

get_value_with_fallback(row, column_name, default_value, allow_blank) ==
    IF ~Truthy(column_name)
    THEN (IF ~allow_blank THEN default_value ELSE "")
    ELSE IF column_name[1] \in DOMAIN row /\ notna(row[column_name[1]])
    THEN LET value == row[column_name[1]]
             value_str == Strip(str(value))
         IN  IF value.kind = "ts" THEN strftime(value)
             ELSE IF value_str # "" THEN value_str
             ELSE (IF allow_blank THEN "" ELSE default_value)
    ELSE (IF allow_blank THEN "" ELSE default_value)

(***************************************************************************)
(* The canvas.  A world is the canvas together with what the barcode       *)
(* helpers touch outside it: w = [c, encoder_calls, temp_files, faults].   *)
(***************************************************************************)
cm == 100

\* canvas.Canvas(temp_filename, pagesize=(page_width, page_height))
Canvas(page_width, page_height) ==
    [pagesize |-> <<page_width, page_height>>, pages |-> <<>>, code |-> <<>>,
     font |-> "Helvetica"]

Op(kind, x, y, w, h, text, font) ==
    [op |-> kind, x |-> x, y |-> y, w |-> w, h |-> h, text |-> text, font |-> font]

\* c.setFont(name, 11)
setFont(cv, name) == [cv EXCEPT !.font = name]

\* c.rect(x, y, width, height)
rect(cv, x, y, width, height) ==
    [cv EXCEPT !.code = Append(@, Op("rect", x, y, width, height, "", ""))]

\* c.drawString(x, y, text)
drawString(cv, x, y, text) ==
    [cv EXCEPT !.code = Append(@, Op("string", x, y, 0, 0, text, cv.font))]

\* draw_centered_text: the string is centred in [x, x + width] in the active font
draw_centered_text(cv, text, x, y, width) ==
    [cv EXCEPT !.code = Append(@, Op("centered", x, y, width, 0, text, cv.font))]

\* c.drawImage(barcode_file, x, y, width, height): the symbol encoding data
drawImage(cv, data, x, y, width, height) ==
    [cv EXCEPT !.code = Append(@, Op("image", x, y, width, height, data, ""))]

\* c.showPage()
showPage(cv) == [cv EXCEPT !.pages = Append(@, cv.code), !.code = <<>>]

\* c.save(): the page in progress is closed, the document is what was closed
save(cv) == IF Len(cv.code) > 0 THEN showPage(cv).pages ELSE cv.pages

(***************************************************************************)
(* generate_barcode_image and draw_barcode.  The outcome of one barcode    *)
(* is what the backend did:                                                *)
(*   "ok"            encoded, temp file written, drawImage succeeded       *)
(*   "draw_error"    encoded, temp file written, drawImage raised          *)
(*   "encode_error"  exception before the temp file exists                 *)
(*   "save_error"    exception after NamedTemporaryFile created the file   *)
(***************************************************************************)
Outcomes == {"ok", "draw_error", "encode_error", "save_error"}

IsFault(outcome) == outcome # "ok"

\* not data or str(data).strip() == ""
Blank(data) == data = "" \/ Strip(data) = ""

\* returns [file: None or Some(name), w: the world after the call]
generate_barcode_image(w, data, x, y, outcome) ==
    IF Blank(data) THEN [file |-> None, w |-> w]
    ELSE LET file == IF outcome \in {"encode_error", "save_error"}
                     THEN None ELSE Some("barcode.png")
             logged == [w EXCEPT !.encoder_calls =
                           Append(@, [data |-> data, x |-> x, y |-> y,
                                      page |-> Len(w.c.pages) + 1, file |-> file]),
                        !.faults = @ + (IF IsFault(outcome) THEN 1 ELSE 0)]
         IN  CASE outcome = "encode_error" -> [file |-> None, w |-> logged]
               [] outcome = "save_error" ->
                    [file |-> None, w |-> [logged EXCEPT !.temp_files = @ + 1]]
               [] OTHER ->
                    [file |-> file, w |-> [logged EXCEPT !.temp_files = @ + 1]]

draw_barcode(w, data, x, y, width_cm, height_cm, outcome) ==
    IF Blank(data) THEN w
    ELSE LET g == generate_barcode_image(w, data, x, y, outcome)
         IN  IF g.file # None
             THEN IF outcome = "draw_error"
                  THEN [g.w EXCEPT !.c = draw_centered_text(
                            @, data, x, y + height_cm \div 2, width_cm)]
                  ELSE [g.w EXCEPT !.c = drawImage(@, data, x, y, width_cm, height_cm),
                                   !.temp_files = @ - 1]
             ELSE g.w

(***************************************************************************)
(* create_single_label: seven grid rows, drawn top to bottom.              *)
(***************************************************************************)
row_height == (10 * cm) \div 10
col1_width == (25 * cm) \div 10
col2_width == (30 * cm) \div 10
col3_width == (37 * cm) \div 10
left == (5 * cm) \div 10
\* current_y + row_height / 2 - 0.15 * cm
TextY(current_y) == current_y + row_height \div 2 - (15 * cm) \div 100

\* the three outlined cells of a label / value / barcode row
ThreeCells(cv, current_y) ==
    rect(rect(rect(cv, left, current_y, col1_width, row_height),
              left + col1_width, current_y, col2_width, row_height),
         left + col1_width + col2_width, current_y, col3_width, row_height)

\* the bold label of a row, leaving the regular font active
BoldLabel(cv, text, current_y, width) ==
    setFont(draw_centered_text(setFont(cv, "Helvetica-Bold"),
                               text, left, TextY(current_y), width),
            "Helvetica")

\* the barcode sub-rectangle of a row: inset 0.1 cm inside the third cell
BarcodeAt(w, data, current_y, outcome) ==
    draw_barcode(w, data, left + col1_width + col2_width + (1 * cm) \div 10,
                 current_y + (1 * cm) \div 10, col3_width - (2 * cm) \div 10,
                 row_height - (2 * cm) \div 10, outcome)

\* Row 1: organisation header, date label, date value
Row1(cv, current_y, document_date) ==
    LET eka_col_width == (55 * cm) \div 10
        doc_header_width == (14 * cm) \div 10
        doc_value_width == (23 * cm) \div 10
        center_y == current_y + row_height \div 2
        r1 == rect(cv, left, current_y, eka_col_width, row_height)
        r2 == rect(r1, left + eka_col_width, current_y, doc_header_width, row_height)
        r3 == rect(r2, left + eka_col_width + doc_header_width, current_y,
                   doc_value_width, row_height)
        t1 == draw_centered_text(setFont(r3, "Helvetica-Bold"),
                  "Pinnacle Mobility Solutions", left,
                  center_y + (15 * cm) \div 100, eka_col_width)
        t2 == draw_centered_text(t1, "Pvt. Ltd.", left,
                  center_y - (25 * cm) \div 100, eka_col_width)
        t3 == draw_centered_text(setFont(t2, "Helvetica-Bold"), "Date",
                  left + eka_col_width, TextY(current_y), doc_header_width)
    IN  draw_centered_text(setFont(t3, "Helvetica"), document_date,
            left + eka_col_width + doc_header_width, TextY(current_y), doc_value_width)

\* Row 2 without the guard on a blank ASN
Row2Unguarded(w, current_y, asn_no, outcome) ==
    LET cells == BoldLabel(ThreeCells(w.c, current_y), "ASN No", current_y, col1_width)
    IN  BarcodeAt([w EXCEPT !.c = draw_centered_text(cells, asn_no,
                        left + col1_width, TextY(current_y), col2_width)],
                  asn_no, current_y, outcome)

\* Row 2: ASN No label, value and barcode, the last two only for a non-blank ASN
Row2(w, current_y, asn_no, outcome) ==
    LET cells == BoldLabel(ThreeCells(w.c, current_y), "ASN No", current_y, col1_width)
    IN  IF asn_no # "" /\ Strip(asn_no) # ""
        THEN BarcodeAt([w EXCEPT !.c = draw_centered_text(cells, asn_no,
                            left + col1_width, TextY(current_y), col2_width)],
                       asn_no, current_y, outcome)
        ELSE [w EXCEPT !.c = cells]

\* Rows 3 and 5: label, value and barcode
ValueBarcodeRow(w, current_y, label, value, outcome) ==
    LET cells == BoldLabel(ThreeCells(w.c, current_y), label, current_y, col1_width)
    IN  BarcodeAt([w EXCEPT !.c = draw_centered_text(cells, value,
                        left + col1_width, TextY(current_y), col2_width)],
                  value, current_y, outcome)

\* the truncation with >= in place of >
TruncateInclusive(text, limit, keep) ==
    IF Len(text) >= limit THEN Prefix(text, keep) \o "..." ELSE text

\* if len(text) > limit: text = text[:keep] + "..."
Truncate(text, limit, keep) ==
    IF Len(text) > limit THEN Prefix(text, keep) \o "..." ELSE text

DescriptionLimit == 25
DescriptionKeep == 22
ShipperNameLimit == 15
ShipperNameKeep == 12

\* Row 4: Description label and the left-aligned, truncated description
Row4(cv, current_y, description) ==
    LET r1 == rect(cv, left, current_y, col1_width, row_height)
        r2 == rect(r1, left + col1_width, current_y, col2_width + col3_width, row_height)
        lab == BoldLabel(r2, "Description", current_y, col1_width)
    IN  drawString(lab, left + col1_width + (2 * cm) \div 10, TextY(current_y),
                   Truncate(description, DescriptionLimit, DescriptionKeep))

\* Row 6 with the Gross Wt label cell placed without the Net Wt value's width
Row6Overlapping(cv, current_y, net_weight, gross_weight) ==
    LET header_width == (25 * cm) \div 10
        value_width == (21 * cm) \div 10
        r1 == rect(cv, left, current_y, header_width, row_height)
        r2 == rect(r1, left + header_width, current_y, value_width, row_height)
        r3 == rect(r2, left + header_width * 2, current_y, header_width, row_height)
        r4 == rect(r3, left + header_width * 2 + value_width, current_y,
                   value_width, row_height)
        t1 == BoldLabel(r4, "Net Wt", current_y, header_width)
        t2 == draw_centered_text(t1, net_weight, left + header_width,
                                 TextY(current_y), value_width)
        t3 == setFont(draw_centered_text(setFont(t2, "Helvetica-Bold"), "Gross Wt",
                          left + header_width + value_width, TextY(current_y),
                          header_width), "Helvetica")
    IN  draw_centered_text(t3, gross_weight, left + header_width * 2 + value_width,
                           TextY(current_y), value_width)

\* Row 6: Net Wt label and value, Gross Wt label and value
Row6(cv, current_y, net_weight, gross_weight) ==
    LET header_width == (25 * cm) \div 10
        value_width == (21 * cm) \div 10
        r1 == rect(cv, left, current_y, header_width, row_height)
        r2 == rect(r1, left + header_width, current_y, value_width, row_height)
        r3 == rect(r2, left + header_width + value_width, current_y,
                   header_width, row_height)
        r4 == rect(r3, left + header_width * 2 + value_width, current_y,
                   value_width, row_height)
        t1 == BoldLabel(r4, "Net Wt", current_y, header_width)
        t2 == draw_centered_text(t1, net_weight, left + header_width,
                                 TextY(current_y), value_width)
        t3 == setFont(draw_centered_text(setFont(t2, "Helvetica-Bold"), "Gross Wt",
                          left + header_width + value_width, TextY(current_y),
                          header_width), "Helvetica")
    IN  draw_centered_text(t3, gross_weight, left + header_width * 2 + value_width,
                           TextY(current_y), value_width)

\* Row 7: Shipper label, shipper id, truncated shipper name
Row7(cv, current_y, shipper_id, shipper_name) ==
    LET row7_height == (10 * cm) \div 10
        shipper_label_width == (25 * cm) \div 10
        shipper_id_width == (25 * cm) \div 10
        shipper_name_width == (42 * cm) \div 10
        y == current_y + row7_height \div 2 - (15 * cm) \div 100
        r1 == rect(cv, left, current_y, shipper_label_width, row7_height)
        r2 == rect(r1, left + shipper_label_width, current_y,
                   shipper_id_width, row7_height)
        r3 == rect(r2, left + shipper_label_width + shipper_id_width, current_y,
                   shipper_name_width, row7_height)
        t1 == draw_centered_text(setFont(r3, "Helvetica-Bold"), "Shipper", left, y,
                                 shipper_label_width)
        t2 == draw_centered_text(setFont(t1, "Helvetica"), shipper_id,
                                 left + shipper_label_width, y, shipper_id_width)
        display_shipper_name == Truncate(shipper_name, ShipperNameLimit, ShipperNameKeep)
    IN  draw_centered_text(t2, display_shipper_name,
                           left + shipper_label_width + shipper_id_width, y,
                           shipper_name_width)

\* v: the nine resolved values; out: the backend's outcome per barcode
create_single_label(w, v, page_width, page_height, out) ==
    LET start_y == page_height - (5 * cm) \div 10 - row_height
        w1 == [w EXCEPT !.c = Row1(setFont(@, "Helvetica"), start_y, v.document_date)]
        w2 == Row2(w1, start_y - row_height, v.asn_no, out.asn_no)
        w3 == ValueBarcodeRow(w2, start_y - 2 * row_height, "Part No", v.part_no,
                              out.part_no)
        w4 == [w3 EXCEPT !.c = Row4(@, start_y - 3 * row_height, v.description)]
        w5 == ValueBarcodeRow(w4, start_y - 4 * row_height, "Quantity", v.quantity,
                              out.quantity)
        w6 == [w5 EXCEPT !.c = Row6(@, start_y - 5 * row_height, v.net_weight,
                                    v.gross_weight)]
    IN  [w6 EXCEPT !.c = Row7(@, start_y - 6 * row_height, v.shipper_id, v.shipper_name)]

(***************************************************************************)
(* create_label_pdf, one loop iteration at a time                          *)
(***************************************************************************)
page_width == 10 * cm
page_height == 15 * cm

BarcodeFields == {"asn_no", "part_no", "quantity"}

\* row[column_name]: the row of a frame as a Series indexed by its columns
Series(columns, values) ==
    [h \in {columns[i] : i \in 1..Len(columns)} |->
        values[CHOOSE i \in 1..Len(columns) : columns[i] = h]]

\* the nine get_value_with_fallback calls of one iteration
ResolveRow(row, mapping, idx) ==
    [document_date |-> get_value_with_fallback(row, Get(mapping, "document_date"),
                                               "11-07-24", FALSE),
     asn_no |-> get_value_with_fallback(row, Get(mapping, "asn_no"), "", TRUE),
     part_no |-> get_value_with_fallback(row, Get(mapping, "part_no"),
                                         "PART" \o Str(idx + 1), FALSE),
     description |-> get_value_with_fallback(row, Get(mapping, "description"),
                                             "Description", FALSE),
     quantity |-> get_value_with_fallback(row, Get(mapping, "quantity"), "1", FALSE),
     net_weight |-> get_value_with_fallback(row, Get(mapping, "net_weight"),
                                            "480", FALSE),
     gross_weight |-> get_value_with_fallback(row, Get(mapping, "gross_weight"),
                                              "500", FALSE),
     shipper_id |-> get_value_with_fallback(row, Get(mapping, "shipper_id"),
                                            "V12345", FALSE),
     shipper_name |-> get_value_with_fallback(row, Get(mapping, "shipper_name"),
                                              "Shipper Name", FALSE)]

\* a loop that stops one row early
MoreRowsButLast(idx, df) == idx < Len(df.rows) - 1

\* for index, row in data.iterrows(): rows are left
MoreRows(idx, df) == idx < Len(df.rows)

\* a page break before every row, the first included
PageBreakAlways(idx) == idx >= 0

\* if index > 0: c.showPage()
PageBreakBefore(idx) == idx > 0

\* the body of the loop for row idx
LoopBody(w, df, mapping, idx, out) ==
    LET broken == IF PageBreakBefore(idx) THEN [w EXCEPT !.c = showPage(@)] ELSE w
        row == Series(df.columns, df.rows[idx + 1])
    IN  create_single_label(broken, ResolveRow(row, mapping, idx),
                            page_width, page_height, out)

\* df.columns = df.columns.astype(str).str.strip()
CleanColumns(df) ==
    [df EXCEPT !.columns = [i \in 1..Len(df.columns) |-> Strip(df.columns[i])]]

(***************************************************************************)
(* Uploaded tables.  A frame is [columns, rows]; a row is the tuple of its *)
(* cells in column order.                                                  *)
(***************************************************************************)
ScenarioHeaders ==
    <<"Ship Date", "ASN No", "Part No", "Desc", "Qty", "Net Wt", "Gross Wt",
      "Shipper Name", "Shipper ID">>

LongDescription == "Long description text exceeding limit"
LongShipperName == "A Very Long Shipper Company Name"

ScenarioRow ==
    <<StrCell("2024-07-11"), StrCell(""), StrCell("P100"), StrCell(LongDescription),
      IntCell(5), StrCell("480"), StrCell("500"), StrCell(LongShipperName),
      StrCell("V1")>>

ScenarioTable == [columns |-> ScenarioHeaders, rows |-> <<ScenarioRow>>]

AsnCells ==
    {NaN, StrCell(""), StrCell("  "), StrCell("A1"), StrCell(" A 1 "),
     Timestamp(2024, 7, 11)}
PartCells == {NaN, StrCell("P100"), StrCell(" "), IntCell(7)}

\* one-row tables over the scenario's headers, one or two cells varied
ScenarioRows ==
    {[ScenarioRow EXCEPT ![2] = a, ![3] = p] : a \in AsnCells, p \in PartCells}
    \cup {[ScenarioRow EXCEPT ![4] = StrCell(Prefix(LongDescription, n))] :
             n \in 0..MaxDescLen}
    \cup {[ScenarioRow EXCEPT ![8] = StrCell(Prefix(LongShipperName, n))] :
             n \in 0..MaxNameLen}

\* tables of 0..MaxRows rows over two columns, headers not yet stripped
SmallColumns == {<<"Remarks", " ASN No ">>, <<"Remarks", "Notes">>}
SmallRows == {<<StrCell("x"), NaN>>, <<StrCell("y"), StrCell("A1")>>}

Tables ==
    {[columns |-> ScenarioHeaders, rows |-> <<r>>] : r \in ScenarioRows}
    \cup {[columns |-> cols, rows |-> rs] :
             cols \in SmallColumns,
             rs \in UNION {[1..n -> SmallRows] : n \in 0..MaxRows}}

(***************************************************************************)
(* The application: upload, generate button, rendering loop, delivery.     *)
(***************************************************************************)
NoCall == [fn |-> "none", args |-> <<>>, done |-> FALSE, ret |-> <<>>]

World == [c |-> c, encoder_calls |-> encoder_calls, temp_files |-> temp_files,
          faults |-> faults]

FreshLocals ==
    /\ index = 0
    /\ c = Canvas(page_width, page_height)
    /\ encoder_calls = <<>>
    /\ temp_files = 0
    /\ faults = 0
    /\ pdf_file = None
    /\ download = None

AppIdle ==
    /\ pc = "idle"
    /\ uploaded_data = None
    /\ column_mappings = <<>>
    /\ FreshLocals

Init == AppIdle /\ call = NoCall

Data == uploaded_data[1]

\* lines 414-428: a file is uploaded, its headers cleaned and detected.  The
\* state after an upload depends on the file alone, so uploading over an
\* earlier file reaches nothing that a first upload does not.
Upload ==
    /\ pc = "idle"
    /\ \E raw \in Tables :
          LET df == CleanColumns(raw)
          IN  /\ uploaded_data' = Some(df)
              /\ column_mappings' = detect_columns(df.columns)
    /\ pc' = "loaded"
    /\ UNCHANGED <<index, c, encoder_calls, temp_files, faults, pdf_file,
                   download, call>>

\* lines 457-460, 222-233: the button is pressed, create_label_pdf opens a canvas
Generate ==
    /\ pc = "loaded"
    /\ pc' = "rendering"
    /\ index' = 0
    /\ c' = Canvas(page_width, page_height)
    /\ UNCHANGED <<uploaded_data, column_mappings, encoder_calls,
                   temp_files, faults, pdf_file, download, call>>

\* lines 235-252: one iteration of the loop, the barcode backend choosing outcomes
RenderRow ==
    /\ pc = "rendering"
    /\ MoreRows(index, Data)
    /\ \E out \in [BarcodeFields -> Outcomes] :
          LET w == LoopBody(World, Data, column_mappings, index, out)
          IN  /\ w.faults <= MaxFaults
              /\ c' = w.c
              /\ encoder_calls' = w.encoder_calls
              /\ temp_files' = w.temp_files
              /\ faults' = w.faults
    /\ index' = index + 1
    /\ UNCHANGED <<pc, uploaded_data, column_mappings, pdf_file, download, call>>

\* a canvas call raises inside an iteration, or c.save() raises: the exception
\* leaves create_label_pdf and reaches the handler's except (lines 485-490)
RenderFail ==
    /\ pc = "rendering"
    /\ pc' = "error"
    /\ UNCHANGED <<uploaded_data, column_mappings, index, c, encoder_calls,
                   temp_files, faults, pdf_file, download, call>>

\* lines 254-255: the loop is over, the canvas is saved and the file returned
Save ==
    /\ pc = "rendering"
    /\ ~MoreRows(index, Data)
    /\ pdf_file' = Some(save(c))
    /\ c' = [c EXCEPT !.pages = save(c), !.code = <<>>]
    /\ pc' = "saved"
    /\ UNCHANGED <<uploaded_data, column_mappings, index, encoder_calls,
                   temp_files, faults, download, call>>

\* lines 463-477: the file is read, removed and offered for download
Deliver ==
    /\ pc = "saved"
    /\ download' = pdf_file
    /\ pc' = "offered"
    /\ UNCHANGED <<uploaded_data, column_mappings, index, c, encoder_calls,
                   temp_files, faults, pdf_file, call>>

\* lines 463-467 raise (open, read, unlink): the handler's except
DeliverFail ==
    /\ pc = "saved"
    /\ pc' = "error"
    /\ UNCHANGED <<uploaded_data, column_mappings, index, c, encoder_calls,
                   temp_files, faults, pdf_file, download, call>>

\* the script runs again: the handler's locals and widgets are gone (the
\* temp-file count is kept per run of the handler)
Rerun ==
    /\ pc \in {"offered", "error"}
    /\ pc' = "loaded"
    /\ index' = 0
    /\ c' = Canvas(page_width, page_height)
    /\ encoder_calls' = <<>>
    /\ temp_files' = 0
    /\ faults' = 0
    /\ pdf_file' = None
    /\ download' = None
    /\ UNCHANGED <<uploaded_data, column_mappings, call>>

Next ==
    \/ Upload
    \/ Generate
    \/ RenderRow
    \/ RenderFail
    \/ Save
    \/ Deliver
    \/ DeliverFail
    \/ Rerun

Spec == Init /\ [][Next]_vars

(***************************************************************************)
(* Direct calls of detect_columns and get_value_with_fallback, the         *)
(* arguments drawn from bounded sets.                                      *)
(***************************************************************************)
HeaderPool ==
    {"Ship Date", "ASN No", "PART", "ITEM CODE", "Desc", "NetWt", "Shipper Name",
     "Shipper ID", "Remarks"}

FieldSet == {Fields[i] : i \in 1..Len(Fields)}

\* every configured keyword, offered as a header of its own
KeywordHeaders ==
    UNION {{mappings[f][i] : i \in 1..Len(mappings[f])} : f \in FieldSet}

Injective(q) == \A i, j \in 1..Len(q) : q[i] = q[j] => i = j

DetectInputs ==
    {q \in UNION {[1..n -> HeaderPool] : n \in 0..MaxHeaders} : Injective(q)}
    \cup {<<k>> : k \in KeywordHeaders}
    \cup {ScenarioHeaders}

InitDetect ==
    /\ AppIdle
    /\ call \in {[fn |-> "detect_columns", args |-> h, done |-> FALSE, ret |-> <<>>] :
                    h \in DetectInputs}

CallDetect ==
    /\ call.fn = "detect_columns"
    /\ ~call.done
    /\ call' = [call EXCEPT !.done = TRUE, !.ret = detect_columns(call.args)]
    /\ UNCHANGED <<pc, uploaded_data, column_mappings, index, c, encoder_calls,
                   temp_files, faults, pdf_file, download>>

NextDetect == CallDetect

SpecDetect == InitDetect /\ [][NextDetect]_vars

CellPool ==
    {NaN, StrCell(""), StrCell(" "), StrCell("\t "), StrCell("x"), StrCell(" x "),
     StrCell(" a b "), IntCell(0), IntCell(12), Timestamp(2024, 7, 11),
     Timestamp(2005, 12, 1)}

\* the defaults configured at lines 240-248
Defaults ==
    {"11-07-24", "", "PART1", "Description", "1", "480", "500", "V12345",
     "Shipper Name"}

ResolveInputs ==
    {[row |-> Series(<<"A", "B">>, <<cell, StrCell("other")>>), column_name |-> col,
      default_value |-> d, allow_blank |-> b] :
        cell \in CellPool, col \in {None, Some(""), Some("A"), Some("Z")},
        d \in Defaults, b \in BOOLEAN}

InitResolve ==
    /\ AppIdle
    /\ call \in {[fn |-> "get_value_with_fallback", args |-> a, done |-> FALSE,
                  ret |-> <<>>] : a \in ResolveInputs}

CallResolve ==
    /\ call.fn = "get_value_with_fallback"
    /\ ~call.done
    /\ call' = [call EXCEPT !.done = TRUE,
                    !.ret = get_value_with_fallback(call.args.row,
                                call.args.column_name, call.args.default_value,
                                call.args.allow_blank)]
    /\ UNCHANGED <<pc, uploaded_data, column_mappings, index, c, encoder_calls,
                   temp_files, faults, pdf_file, download>>

NextResolve == CallResolve

SpecResolve == InitResolve /\ [][NextResolve]_vars

(***************************************************************************)
(* Properties of detect_columns (under SpecDetect).                        *)
(***************************************************************************)
Detected == call.fn = "detect_columns" /\ call.done

\* the positions of the headers whose upper-cased form contains keyword k
MatchesOf(headers, k) == {i \in 1..Len(headers) : Contains(Upper(headers[i]), k)}

\* the positions of the headers whose upper-cased form contains any keyword
MatchesAny(headers, keywords) ==
    UNION {MatchesOf(headers, keywords[j]) : j \in 1..Len(keywords)}

Min(S) == CHOOSE m \in S : \A n \in S : m <= n

\* keyword-priority search: the first keyword that matches anything wins,
\* and within it the leftmost header
KeywordPriority(headers, keywords) ==
    LET hits == {j \in 1..Len(keywords) : MatchesOf(headers, keywords[j]) # {}}
    IN  IF hits = {} THEN None
        ELSE Some(headers[Min(MatchesOf(headers, keywords[Min(hits)]))])

\* C1 as stated: for every header list and every field, detect_columns selects
\* the header that keyword-priority search selects.
C1_KeywordPriority ==
    Detected =>
        \A f \in FieldSet : Get(call.ret, f) = KeywordPriority(call.args, mappings[f])

\* C1 as amended: for every header list and every field, detect_columns selects
\* the leftmost header whose upper-cased form contains any of the field's
\* keywords, whatever the keyword's place in the list; no such header, no entry.
C1_LeftmostHeader ==
    Detected =>
        \A f \in FieldSet :
            LET m == MatchesAny(call.args, mappings[f])
            IN  Get(call.ret, f) = IF m = {} THEN None ELSE Some(call.args[Min(m)])

\* C1 witness: an earlier keyword matches a later header, a later keyword an
\* earlier one, and the earlier header is selected
C1_Witness ==
    /\ Detected
    /\ call.args = <<"ITEM CODE", "PART">>
    /\ KeywordPriority(call.args, mappings.part_no) = Some("PART")
    /\ call.ret.part_no = "ITEM CODE"

\* C8 as stated: a keyword that is a substring of a header when letter case is
\* disregarded always gets its field mapped.
C8_CaseInsensitive ==
    Detected =>
        \A f \in FieldSet : \A j \in 1..Len(mappings[f]) : \A i \in 1..Len(call.args) :
            Contains(Upper(call.args[i]), Upper(mappings[f][j])) => f \in DOMAIN call.ret

\* C9: every mapped value is a header of the input whose upper-cased form
\* contains a keyword of its field; a field is unmapped exactly when no keyword
\* of it is a substring of any upper-cased header, whatever other fields took.
C9_MappingInvariant ==
    Detected =>
        \A f \in FieldSet :
            /\ f \in DOMAIN call.ret =>
                  \E i \in 1..Len(call.args) :
                      /\ call.ret[f] = call.args[i]
                      /\ \E j \in 1..Len(mappings[f]) :
                            Contains(Upper(call.args[i]), mappings[f][j])
            /\ f \notin DOMAIN call.ret <=> MatchesAny(call.args, mappings[f]) = {}

\* C9 witness: one header selected for two fields, another field left unmapped
C9_Witness ==
    /\ Detected
    /\ "shipper_id" \in DOMAIN call.ret
    /\ "shipper_name" \in DOMAIN call.ret
    /\ call.ret.shipper_id = call.ret.shipper_name
    /\ "quantity" \notin DOMAIN call.ret

(***************************************************************************)
(* Properties of get_value_with_fallback (under SpecResolve).              *)
(***************************************************************************)
Resolved == call.fn = "get_value_with_fallback" /\ call.done

AllSpaces(s) == \A i \in 1..Len(s) : SubSeq(s, i, i) \in {" ", "\t"}

\* the cell is not there, or is NaN, or is empty once trimmed
MissingValue(a) ==
    \/ a.column_name = None
    \/ a.column_name[1] \notin DOMAIN a.row
    \/ a.row[a.column_name[1]].kind = "nan"
    \/ a.row[a.column_name[1]].kind = "str" /\ AllSpaces(a.row[a.column_name[1]].s)

\* C6: with allow_blank false and a non-empty default, a null header, an absent
\* header, a NaN cell or a cell empty after trimming resolves to the default,
\* and the result is never empty or whitespace-only.
C6_DefaultNeverBlank ==
    (Resolved /\ ~call.args.allow_blank /\ call.args.default_value # "") =>
        /\ MissingValue(call.args) => call.ret = call.args.default_value
        /\ ~AllSpaces(call.ret)

\* C6 witness: a whitespace-only cell under a mapped header resolved to the default
C6_Witness ==
    /\ Resolved
    /\ ~call.args.allow_blank
    /\ call.args.column_name = Some("A")
    /\ call.args.row["A"] = StrCell("\t ")
    /\ call.args.default_value = "V12345"
    /\ call.ret = "V12345"

(***************************************************************************)
(* Properties of the rendering pipeline (under Spec).                      *)
(***************************************************************************)
N == Len(Data.rows)

\* the lower edge of grid row r (1..7) of a page
GridY(r) == page_height - (5 * cm) \div 10 - r * row_height

\* where a row's barcode sub-rectangle starts
BarcodeX == left + col1_width + col2_width + (1 * cm) \div 10
BarcodeY(r) == GridY(r) + (1 * cm) \div 10
BarcodeW == col3_width - (2 * cm) \div 10
BarcodeH == row_height - (2 * cm) \div 10

\* the page on which row k (0-based) was drawn, while or after rendering
PageOfRow(k) == IF k + 1 <= Len(c.pages) THEN c.pages[k + 1] ELSE c.code

\* the row of the frame as the resolver sees it, and what it resolves to
RowOf(k) == Series(Data.columns, Data.rows[k + 1])
ValuesOf(k) == ResolveRow(RowOf(k), column_mappings, k)

HasOp(page, kind, x, y, text) ==
    \E i \in 1..Len(page) :
        page[i].op = kind /\ page[i].x = x /\ page[i].y = y /\ page[i].text = text

\* the texts drawn by ops of a kind at a place
TextsAt(page, kind, x, y) ==
    {page[i].text : i \in {j \in 1..Len(page) :
        page[j].op = kind /\ page[j].x = x /\ page[j].y = y}}

HasRect(page, x, y, w, h) ==
    \E i \in 1..Len(page) :
        page[i].op = "rect" /\ page[i].x = x /\ page[i].y = y
        /\ page[i].w = w /\ page[i].h = h

\* anything at all drawn inside a row's barcode sub-rectangle
BarcodeAreaUsed(page, r) ==
    \E i \in 1..Len(page) :
        /\ page[i].op \in {"image", "centered", "string"}
        /\ page[i].x = BarcodeX
        /\ page[i].y >= BarcodeY(r) /\ page[i].y <= BarcodeY(r) + BarcodeH

\* the encoder invocations made for grid row r of the page of row k
EncoderCallsFor(k, r) ==
    {i \in 1..Len(encoder_calls) :
        encoder_calls[i].page = k + 1 /\ encoder_calls[i].y = BarcodeY(r)}

InCreateLabelPdf == pc \in {"rendering", "saved", "offered", "error"}

\* C2 as stated: whenever the encoder was invoked and yielded no image, the
\* literal value is drawn centred in the barcode sub-rectangle.
C2_TextFallbackOnEncodeFailure ==
    InCreateLabelPdf =>
        \A i \in 1..Len(encoder_calls) :
            encoder_calls[i].file = None =>
                \E k \in 0..(index - 1) :
                    /\ encoder_calls[i].page = k + 1
                    /\ HasOp(PageOfRow(k), "centered", encoder_calls[i].x,
                             encoder_calls[i].y + BarcodeH \div 2, encoder_calls[i].data)

\* the value texts of a label: one label, showing the values of row k
ShowsRow(page, k) ==
    LET v == ValuesOf(k)
    IN  /\ Cardinality({i \in 1..Len(page) : page[i].text = "Date"}) = 1
        /\ TextsAt(page, "centered", left + (55 * cm) \div 10 + (14 * cm) \div 10,
                   TextY(GridY(1))) = {v.document_date}
        /\ TextsAt(page, "centered", left + col1_width, TextY(GridY(2)))
              = (IF v.asn_no = "" THEN {} ELSE {v.asn_no})
        /\ TextsAt(page, "centered", left + col1_width, TextY(GridY(3))) = {v.part_no}
        /\ TextsAt(page, "centered", left + col1_width, TextY(GridY(5))) = {v.quantity}
        /\ TextsAt(page, "centered", left + (25 * cm) \div 10, TextY(GridY(6)))
              = {v.net_weight}
        /\ TextsAt(page, "centered", left + (25 * cm) \div 10, TextY(GridY(7)))
              = {v.shipper_id}

\* C3: a page break precedes every row but the first, and the saved document
\* has exactly N pages, page k showing exactly one label, that of input row k.
C3_OnePagePerRowInOrder ==
    /\ pc = "rendering" =>
          /\ Len(c.pages) = (IF index = 0 THEN 0 ELSE index - 1)
          /\ (index > 0 => ShowsRow(c.code, index - 1))
    /\ pc \in {"saved", "offered"} =>
          /\ Len(pdf_file[1]) = N
          /\ \A k \in 0..(N - 1) : ShowsRow(pdf_file[1][k + 1], k)

\* C3 witness: a saved document of two different rows
C3_Witness ==
    /\ pc = "saved"
    /\ N = 2
    /\ Len(pdf_file[1]) = 2
    /\ ValuesOf(0).asn_no = "A1"
    /\ ValuesOf(1).asn_no = ""
    /\ pdf_file[1][1] # pdf_file[1][2]

\* what the scenario's page shows apart from the description
ScenarioPage(page) ==
    /\ Len(pdf_file[1]) = 1
    /\ TextsAt(page, "centered", left + col1_width, TextY(GridY(2))) = {}
    /\ ~BarcodeAreaUsed(page, 2)
    /\ EncoderCallsFor(0, 2) = {}
    /\ \E i \in EncoderCallsFor(0, 3) : encoder_calls[i].data = "P100"
    /\ faults = 0 => HasOp(page, "image", BarcodeX, BarcodeY(3), "P100")
    /\ TextsAt(page, "centered", left + 2 * ((25 * cm) \div 10), TextY(GridY(7)))
          = {"A Very Long ..."}

ScenarioDone == pc \in {"saved", "offered"} /\ Data = ScenarioTable

\* C4 as stated: the scenario's description is drawn as "Long description tex...".
C4_ScenarioAsStated ==
    ScenarioDone =>
        /\ ScenarioPage(pdf_file[1][1])
        /\ TextsAt(pdf_file[1][1], "string", left + col1_width + (2 * cm) \div 10,
                   TextY(GridY(4))) = {"Long description tex..."}

\* C4 as amended: the scenario yields one page with no ASN value and no ASN
\* barcode, the encoder invoked for "P100" and its symbol drawn when the barcode
\* backend does not fail, the shipper name drawn as "A Very Long ...", and the
\* description drawn as "Long description text ..." (22 characters, then "...").
C4_Scenario ==
    ScenarioDone =>
        /\ ScenarioPage(pdf_file[1][1])
        /\ TextsAt(pdf_file[1][1], "string", left + col1_width + (2 * cm) \div 10,
                   TextY(GridY(4))) = {"Long description text ..."}

\* C4 witness: the scenario's document offered, the "P100" symbol drawn
C4_Witness ==
    /\ pc = "offered"
    /\ Data = ScenarioTable
    /\ faults = 0
    /\ HasOp(download[1][1], "image", BarcodeX, BarcodeY(3), "P100")

\* C5: the description drawn is the resolved description when it has at most 25
\* characters and its first 22 characters and "..." otherwise, never more than
\* 25 characters; the shipper name likewise with 15 and 12.
C5_Truncation ==
    InCreateLabelPdf =>
        \A k \in 0..(index - 1) :
            LET d == ValuesOf(k).description
                s == ValuesOf(k).shipper_name
                shown == TextsAt(PageOfRow(k), "string",
                                 left + col1_width + (2 * cm) \div 10, TextY(GridY(4)))
                named == TextsAt(PageOfRow(k), "centered",
                                 left + 2 * ((25 * cm) \div 10), TextY(GridY(7)))
            IN  /\ shown = {IF Len(d) <= 25 THEN d ELSE SubSeq(d, 1, 22) \o "..."}
                /\ \A t \in shown : Len(t) <= 25
                /\ named = {IF Len(s) <= 15 THEN s ELSE SubSeq(s, 1, 12) \o "..."}
                /\ \A t \in named : Len(t) <= 15

\* C5 witness: a description of exactly 25 characters drawn unchanged, or a
\* shipper name of 16 characters cut to 12 and "..."
C5_Witness ==
    /\ pc = "rendering"
    /\ index = 1
    /\ \/ /\ Len(ValuesOf(0).description) = 25
          /\ HasOp(c.code, "string", left + col1_width + (2 * cm) \div 10,
                   TextY(GridY(4)), ValuesOf(0).description)
       \/ /\ Len(ValuesOf(0).shipper_name) = 16
          /\ HasOp(c.code, "centered", left + 2 * ((25 * cm) \div 10),
                   TextY(GridY(7)), "A Very Long ...")

\* the ASN cell of row k is unmapped, missing, empty or whitespace-only
AsnBlank(k) ==
    \/ "asn_no" \notin DOMAIN column_mappings
    \/ RowOf(k)[column_mappings.asn_no].kind = "nan"
    \/ /\ RowOf(k)[column_mappings.asn_no].kind = "str"
       /\ AllSpaces(RowOf(k)[column_mappings.asn_no].s)

\* C7: every page has the three outlined ASN cells and the bold 'ASN No'
\* label; for a blank ASN no value text is drawn, the barcode sub-rectangle
\* stays empty and the encoder is not invoked for it; for a non-blank ASN the
\* value text is drawn and the encoder is invoked once with it.
C7_BlankAsnSuppressed ==
    InCreateLabelPdf =>
        \A k \in 0..(index - 1) :
            LET page == PageOfRow(k)
                y == GridY(2)
            IN  /\ HasRect(page, left, y, col1_width, row_height)
                /\ HasRect(page, left + col1_width, y, col2_width, row_height)
                /\ HasRect(page, left + col1_width + col2_width, y, col3_width,
                           row_height)
                /\ \E i \in 1..Len(page) :
                      /\ page[i].op = "centered" /\ page[i].text = "ASN No"
                      /\ page[i].font = "Helvetica-Bold"
                      /\ page[i].x = left /\ page[i].y = TextY(y)
                /\ IF AsnBlank(k)
                   THEN /\ \A i \in 1..Len(page) :
                              ~(page[i].op \in {"centered", "string"}
                                /\ page[i].x = left + col1_width
                                /\ page[i].y = TextY(y))
                        /\ ~BarcodeAreaUsed(page, 2)
                        /\ EncoderCallsFor(k, 2) = {}
                   ELSE /\ HasOp(page, "centered", left + col1_width, TextY(y),
                                 ValuesOf(k).asn_no)
                        /\ Cardinality(EncoderCallsFor(k, 2)) = 1
                        /\ \A i \in EncoderCallsFor(k, 2) :
                              encoder_calls[i].data = ValuesOf(k).asn_no

\* C7 witness: a whitespace-only ASN cell under a mapped header, rendered
C7_Witness ==
    /\ pc = "rendering"
    /\ index = 1
    /\ "asn_no" \in DOMAIN column_mappings
    /\ RowOf(0)[column_mappings.asn_no] = StrCell("  ")
    /\ EncoderCallsFor(0, 2) = {}
    /\ EncoderCallsFor(0, 3) # {}

\* C10: a document is returned only after all N rows were rendered and saved,
\* a download is offered only for that document, and after a failure nothing
\* is offered.
C10_NoPartialDocument ==
    /\ pdf_file # None => index = N /\ Len(pdf_file[1]) = N
    /\ download # None => pc = "offered" /\ download = pdf_file
    /\ pc = "error" => download = None
    /\ (pc = "error" /\ index < N) => pdf_file = None

\* C10 witness: a backend error after the first of two rows: a page was
\* drawn, nothing is returned or offered
C10_Witness ==
    /\ pc = "error"
    /\ N = 2
    /\ index = 1
    /\ c.code # <<>>
    /\ pdf_file = None
    /\ download = None

(***************************************************************************)
(* Geometry of a page and barcode temp files (under Spec).                 *)
(***************************************************************************)
IsRect(o) == o.op = "rect"

\* the cell rectangles of a page, in drawing order
Rects(page) == SelectSeq(page, IsRect)

\* a rectangle lies inside the 10 cm x 15 cm page
InsidePage(x, y, w, h) ==
    /\ x >= 0 /\ y >= 0 /\ w > 0 /\ h > 0
    /\ x + w <= 10 * cm
    /\ y + h <= 15 * cm

\* (x, y, w, h) is some cell of the page inset by 0.1 cm on every side
InsetInCell(page, x, y, w, h) ==
    \E i \in 1..Len(page) :
        /\ page[i].op = "rect"
        /\ x = page[i].x + cm \div 10
        /\ y = page[i].y + cm \div 10
        /\ w = page[i].w - (2 * cm) \div 10
        /\ h = page[i].h - (2 * cm) \div 10

\* C11: on every page the cells are drawn top to bottom in seven rows; the
\* first row's lower edge is at page_height - 0.5 cm - 1.0 cm and each next row
\* is exactly 1.0 cm lower, every cell 1.0 cm high, so rows do not overlap;
\* within a row each cell starts where the previous one ends, the first at
\* x = 0.5 cm and the last ending at 0.5 cm + 9.2 cm; every cell, every drawn
\* barcode image and every barcode sub-rectangle handed to the encoder is
\* inside the page, the barcode ones inset 0.1 cm inside a cell.
C11_GridGeometry ==
    InCreateLabelPdf =>
        \A k \in 0..(index - 1) :
            LET page == PageOfRow(k)
                rs == Rects(page)
                n == Len(rs)
            IN  /\ n > 0
                /\ rs[1].x = cm \div 2
                /\ rs[1].y = 15 * cm - cm \div 2 - cm
                /\ rs[n].x + rs[n].w = cm \div 2 + (92 * cm) \div 10
                /\ Cardinality({rs[i].y : i \in 1..n}) = 7
                /\ \A i \in 1..n :
                      rs[i].h = cm /\ InsidePage(rs[i].x, rs[i].y, rs[i].w, rs[i].h)
                /\ \A i \in 1..(n - 1) :
                      \/ /\ rs[i + 1].y = rs[i].y
                         /\ rs[i + 1].x = rs[i].x + rs[i].w
                      \/ /\ rs[i + 1].y = rs[i].y - cm
                         /\ rs[i + 1].x = cm \div 2
                         /\ rs[i].x + rs[i].w = cm \div 2 + (92 * cm) \div 10
                /\ \A i \in 1..Len(page) :
                      page[i].op = "image" =>
                          /\ InsetInCell(page, page[i].x, page[i].y, page[i].w, page[i].h)
                          /\ InsidePage(page[i].x, page[i].y, page[i].w, page[i].h)
                /\ \A i \in 1..Len(encoder_calls) :
                      encoder_calls[i].page = k + 1 =>
                          /\ InsetInCell(page, encoder_calls[i].x, encoder_calls[i].y,
                                         (35 * cm) \div 10, (8 * cm) \div 10)
                          /\ InsidePage(encoder_calls[i].x, encoder_calls[i].y,
                                        (35 * cm) \div 10, (8 * cm) \div 10)

\* C11 witness: a finished label with its 21 cells and three barcode images
C11_Witness ==
    /\ pc = "rendering"
    /\ index = 1
    /\ Len(Rects(c.code)) = 21
    /\ Cardinality({i \in 1..Len(c.code) : c.code[i].op = "image"}) = 3

\* C12 as stated: once the draw_barcode calls of a row have returned, no
\* barcode temp file is left on disk, whatever path each call took; so none
\* is left when create_label_pdf finishes.
C12_NoTempFileLeft == InCreateLabelPdf => temp_files = 0

====
